---- MODULE Spec2Model ----
(***************************************************************************)
(* Wind-Turbine-Performance-Simulation-Tool (src/app.py).                   *)
(*                                                                         *)
(* The model follows one browser session of the Streamlit script: every    *)
(* widget interaction re-executes main() from the top.  The numeric core   *)
(* (calculate_power_output, the gating/clamping loop, the metrics) is      *)
(* computed exactly: a Python float is modelled as an exact rational over   *)
(* arbitrary-precision integers, so no rounding is modelled and no value   *)
(* is truncated.  The IEEE results "nan" and "inf" that numpy returns for  *)
(* an empty mean and for a division by zero are modelled as tagged values. *)
(***************************************************************************)
EXTENDS Integers, Sequences, FiniteSets, TLC

(***************************************************************************)
(* Arbitrary-precision naturals: little-endian sequences of limbs in radix *)
(* Radix, without leading zero limbs (zero is the empty sequence).         *)
(***************************************************************************)
Radix == 10 ^ 4

Rest(s) == IF s = << >> THEN << >> ELSE Tail(s)
Limb0(s) == IF s = << >> THEN 0 ELSE Head(s)

RECURSIVE NNorm(_)
NNorm(s) ==
    IF s = << >> THEN << >>
    ELSE IF s[Len(s)] = 0 THEN NNorm(SubSeq(s, 1, Len(s) - 1))
    ELSE s

RECURSIVE NOf(_)
NOf(n) == IF n = 0 THEN << >> ELSE <<n % Radix>> \o NOf(n \div Radix)

RECURSIVE NAddC(_, _, _)
NAddC(a, b, c) ==
    IF a = << >> /\ b = << >>
    THEN (IF c = 0 THEN << >> ELSE <<c>>)
    ELSE LET x == Limb0(a) + Limb0(b) + c
         IN  <<x % Radix>> \o NAddC(Rest(a), Rest(b), x \div Radix)

NAdd(a, b) == NAddC(a, b, 0)

\* a - b for a >= b
RECURSIVE NSubB(_, _, _)
NSubB(a, b, br) ==
    IF a = << >> THEN << >>
    ELSE LET x == Head(a) - Limb0(b) - br
         IN  IF x < 0
             THEN <<x + Radix>> \o NSubB(Tail(a), Rest(b), 1)
             ELSE <<x>> \o NSubB(Tail(a), Rest(b), 0)

NSub(a, b) == NNorm(NSubB(a, b, 0))

\* a * k + c for one limb k
RECURSIVE NMulLimb(_, _, _)
NMulLimb(a, k, c) ==
    IF a = << >> THEN (IF c = 0 THEN << >> ELSE <<c>>)
    ELSE LET x == Head(a) * k + c
         IN  <<x % Radix>> \o NMulLimb(Tail(a), k, x \div Radix)

\* a * b, one limb of b at a time
RECURSIVE NMulBy(_, _)
NMulBy(a, b) ==
    IF b = << >> THEN << >>
    ELSE LET hi == NMulBy(a, Tail(b))
         IN  NAdd(NMulLimb(a, Head(b), 0),
                  IF hi = << >> THEN << >> ELSE <<0>> \o hi)

NMul(a, b) ==
    IF a = << >> \/ b = << >> THEN << >>
    ELSE IF b = <<1>> THEN a
    ELSE IF a = <<1>> THEN b
    ELSE IF Len(b) <= Len(a) THEN NMulBy(a, b)
    ELSE NMulBy(b, a)

\* -1, 0, 1 as a < b, a = b, a > b
RECURSIVE NCmpTop(_, _, _)
NCmpTop(a, b, i) ==
    IF i = 0 THEN 0
    ELSE IF a[i] < b[i] THEN -1
    ELSE IF a[i] > b[i] THEN 1
    ELSE NCmpTop(a, b, i - 1)

NCmp(a, b) ==
    IF Len(a) < Len(b) THEN -1
    ELSE IF Len(a) > Len(b) THEN 1
    ELSE NCmpTop(a, b, Len(a))

(***************************************************************************)
(* Signed integers [sgn, mag] and rationals [num, den] (den > 0) over them. *)
(***************************************************************************)
ZOf(n) ==
    IF n = 0 THEN [sgn |-> 0, mag |-> << >>]
    ELSE IF n < 0 THEN [sgn |-> -1, mag |-> NOf(-n)]
    ELSE [sgn |-> 1, mag |-> NOf(n)]

ZZero == ZOf(0)
ZNeg(a) == [sgn |-> -a.sgn, mag |-> a.mag]
ZMul(a, b) == [sgn |-> a.sgn * b.sgn, mag |-> NMul(a.mag, b.mag)]

ZAdd(a, b) ==
    IF a.sgn = 0 THEN b
    ELSE IF b.sgn = 0 THEN a
    ELSE IF a.sgn = b.sgn THEN [sgn |-> a.sgn, mag |-> NAdd(a.mag, b.mag)]
    ELSE LET c == NCmp(a.mag, b.mag)
         IN  IF c = 0 THEN ZZero
             ELSE IF c > 0 THEN [sgn |-> a.sgn, mag |-> NSub(a.mag, b.mag)]
             ELSE [sgn |-> b.sgn, mag |-> NSub(b.mag, a.mag)]

ZCmp(a, b) ==
    IF a.sgn < b.sgn THEN -1
    ELSE IF a.sgn > b.sgn THEN 1
    ELSE IF a.sgn = 0 THEN 0
    ELSE a.sgn * NCmp(a.mag, b.mag)

ZLeq(a, b) == ZCmp(a, b) <= 0
ZLess(a, b) == ZCmp(a, b) < 0

\* a finite float: num / den with den > 0
Q(n, d) == [kind |-> "num", num |-> n, den |-> d]
QOfZ(z) == Q(z, ZOf(1))
QOf(n) == QOfZ(ZOf(n))
RECURSIVE Gcd(_, _)
Gcd(m, n) == IF n = 0 THEN m ELSE Gcd(n, m % n)
\* n / d for small integers, d > 0, in lowest terms
QFrac(n, d) ==
    LET g == Gcd(IF n < 0 THEN -n ELSE n, d)
    IN  Q(ZOf(n \div g), ZOf(d \div g))
QZero == QOf(0)
QMul(a, b) == Q(ZMul(a.num, b.num), ZMul(a.den, b.den))
QAdd(a, b) ==
    IF a.den = b.den THEN Q(ZAdd(a.num, b.num), a.den)
    ELSE Q(ZAdd(ZMul(a.num, b.den), ZMul(b.num, a.den)), ZMul(a.den, b.den))
QCmp(a, b) ==
    IF a = b THEN 0
    ELSE IF a.den = b.den THEN ZCmp(a.num, b.num)
    ELSE ZCmp(ZMul(a.num, b.den), ZMul(b.num, a.den))
QEq(a, b) == QCmp(a, b) = 0
QLeq(a, b) == QCmp(a, b) <= 0
QLess(a, b) == QCmp(a, b) < 0
QSgn(a) == a.num.sgn
\* a / b for b # 0
QDiv(a, b) ==
    IF b.num.sgn > 0 THEN Q(ZMul(a.num, b.den), ZMul(a.den, b.num))
    ELSE Q(ZNeg(ZMul(a.num, b.den)), ZMul(a.den, ZNeg(b.num)))

(***************************************************************************)
(* numpy / Python float results.  A finite float is Q(..); np.mean of an   *)
(* empty array and 0/0 give nan, x/0 gives +-inf (numpy warns, it does not *)
(* raise).  "raised" would be an exception leaving the call.               *)
(***************************************************************************)
NaN == [kind |-> "nan"]
PosInf == [kind |-> "inf"]
NegInf == [kind |-> "-inf"]
IsFinite(v) == v.kind = "num"

\* np.float64 / number
FloatDiv(a, b) ==
    IF a.kind = "nan" THEN NaN
    ELSE IF a.kind = "num"
    THEN IF QSgn(b) # 0 THEN QDiv(a, b)
         ELSE IF QSgn(a) = 0 THEN NaN
         ELSE IF QSgn(a) > 0 THEN PosInf ELSE NegInf
    ELSE IF QSgn(b) = 0 THEN a
    ELSE IF (QSgn(b) > 0) = (a.kind = "inf") THEN PosInf ELSE NegInf

\* np.float64 * number / number, as in (average_power * 24) / 1000
FloatScale(a, m, d) ==
    IF IsFinite(a) THEN QMul(a, QFrac(m, d)) ELSE a

RECURSIVE SeqSum(_)
SeqSum(s) == IF s = << >> THEN QZero ELSE QAdd(Head(s), SeqSum(Tail(s)))

\* np.mean
np_mean(s) == IF Len(s) = 0 THEN NaN ELSE QDiv(SeqSum(s), QOf(Len(s)))

\* Python's min(a, b): b when b < a, else a
py_min(a, b) == IF QLess(b, a) THEN b ELSE a

\* np.pi = 3.141592653589793
np_pi == Q([sgn |-> 1, mag |-> <<9793, 5358, 9265, 3141>>],
           [sgn |-> 1, mag |-> <<0, 0, 0, 1000>>])

(***************************************************************************)
(* Units.  Widget values and wind speeds are kept in the state as integers *)
(* on the widget's grid and converted to the number the script computes    *)
(* with: metres, hundredths (Cp), thousandths (kg/m3), tenths (m/s, k, c). *)
(***************************************************************************)
Metres(n) == QFrac(n, 1)
Hundredths(n) == QFrac(n, 100)
Thousandths(n) == QFrac(n, 1000)
Tenths(n) == QFrac(n, 10)

(***************************************************************************)
(* calculate_power_output, src/app.py:75-82                                 *)
(***************************************************************************)
calculate_power_output_no_cube(wind_speed, air_density, blade_radius, power_coefficient) ==
    LET swept_area == QMul(np_pi, QMul(blade_radius, blade_radius))
    IN  QMul(QMul(QMul(QMul(QFrac(1, 2), air_density), swept_area),
                  power_coefficient),
             QMul(wind_speed, wind_speed))

calculate_power_output(wind_speed, air_density, blade_radius, power_coefficient) ==
    LET swept_area == QMul(np_pi, QMul(blade_radius, blade_radius))
    IN  QMul(QMul(QMul(QMul(QFrac(1, 2), air_density), swept_area),
                  power_coefficient),
             QMul(wind_speed, QMul(wind_speed, wind_speed)))

(***************************************************************************)
(* calculate_capacity_factor, src/app.py:90-95                              *)
(***************************************************************************)
\* the total of the outputs in place of their mean
calculate_capacity_factor_total(power_outputs, rated_power) ==
    FloatDiv(SeqSum(power_outputs), rated_power)

\* rated power taken in kW where the outputs are in W
calculate_capacity_factor_kw(power_outputs, rated_power) ==
    FloatDiv(np_mean(power_outputs), QMul(rated_power, QFrac(1, 1000)))

calculate_capacity_factor(power_outputs, rated_power) ==
    LET average_power == np_mean(power_outputs)
    IN  FloatDiv(average_power, rated_power)

(***************************************************************************)
(* get_preset_parameters, src/app.py:97-116 (blade_radius in m,            *)
(* power_coefficient in hundredths, rated_power in kW)                     *)
(***************************************************************************)
PresetNames == {"Small (1 MW)", "Medium (2 MW)", "Large (5 MW)"}

get_preset_parameters(preset_name) ==
    CASE preset_name = "Small (1 MW)" ->
            [blade_radius |-> 32, power_coefficient |-> 42, rated_power |-> 1000]
      [] preset_name = "Medium (2 MW)" ->
            [blade_radius |-> 45, power_coefficient |-> 45, rated_power |-> 2000]
      [] preset_name = "Large (5 MW)" ->
            [blade_radius |-> 63, power_coefficient |-> 48, rated_power |-> 5000]

(***************************************************************************)
(* The input widgets of the sidebar, src/app.py:146-247.  A slider returns *)
(* its value argument until the user moves it, and then a point of its     *)
(* grid; a number_input accepts every integer between its limits; a        *)
(* selectbox returns one of its options.                                   *)
(***************************************************************************)
PresetOptions == {"Custom"} \cup PresetNames

Slider(lo, hi, dflt, stp) ==
    [widget |-> "slider", min_value |-> lo, max_value |-> hi, value |-> dflt, step |-> stp]

NumberInput(lo, hi, dflt, stp) ==
    [widget |-> "number_input", min_value |-> lo, max_value |-> hi, value |-> dflt, step |-> stp]

\* every value the widget can return
WidgetValues(w) ==
    IF w.widget = "slider"
    THEN {v \in w.min_value .. w.max_value : (v - w.min_value) % w.step = 0} \cup {w.value}
    ELSE w.min_value .. w.max_value

\* metres
blade_radius_widget(preset) ==
    IF preset # "Custom"
    THEN Slider(10, 100, get_preset_parameters(preset).blade_radius, 1)
    ELSE Slider(10, 100, 40, 1)

\* the slider's upper end rounded up to 0.6, past the Betz limit
power_coefficient_widget_past_betz(preset) ==
    IF preset # "Custom"
    THEN Slider(10, 60, get_preset_parameters(preset).power_coefficient, 1)
    ELSE Slider(10, 60, 42, 1)

\* hundredths
power_coefficient_widget(preset) ==
    IF preset # "Custom"
    THEN Slider(10, 59, get_preset_parameters(preset).power_coefficient, 1)
    ELSE Slider(10, 59, 42, 1)

\* kW
rated_power_widget(preset) ==
    IF preset # "Custom"
    THEN NumberInput(100, 10000, get_preset_parameters(preset).rated_power, 100)
    ELSE NumberInput(100, 10000, 2000, 100)

\* thousandths of kg/m3
air_density_widget == Slider(1000, 1300, 1225, 10)
\* tenths
shape_factor_widget == Slider(10, 30, 20, 1)
\* tenths of m/s
scale_factor_widget == Slider(30, 150, 70, 5)
cut_in_speed_widget == Slider(10, 50, 30, 5)
cut_out_speed_widget == Slider(200, 300, 250, 5)

num_samples_options == <<1000, 5000, 10000, 50000>>
num_samples_index == 2

(***************************************************************************)
(* Bounds of the model.                                                    *)
(***************************************************************************)
\* the user changes a parameter widget at most MaxMoves times in a session
MaxMoves == 1
\* a population of num_samples draws is modelled by at most MaxSamples draws
MaxSamples == 2

\* the values the modelled user moves a widget to: its ends and its default
\* (each slider's max_value lies on its grid)
UserPicks(w) == {w.min_value, w.value, w.max_value}

\* the number of draws that stand for a population of n samples
PopulationSize(n) ==
    IF n \div 1000 < MaxSamples THEN n \div 1000 ELSE MaxSamples

\* wind speeds (tenths of m/s) the sampler is taken to return: the Weibull
\* distribution has every speed >= 0 in its support, whatever k and c are
WindSpeedSupport == {5, 30, 250, 305}

(***************************************************************************)
(* generate_weibull_wind_speeds, src/app.py:84-88: the possible results     *)
(***************************************************************************)
generate_weibull_wind_speeds(shape_factor, scale_factor, num_samples) ==
    [1 .. PopulationSize(num_samples) -> WindSpeedSupport]

(***************************************************************************)
(* The power loop of main(), src/app.py:264-272: one iteration, then the   *)
(* loop over wind_speeds in order.  Speeds come in tenths of m/s.          *)
(***************************************************************************)
\* the zeroing rule with inclusive comparisons: a boundary speed is idle
loop_body_inclusive(speed, cut_in_speed, cut_out_speed, air_density, blade_radius, power_coefficient, rated_power_watts) ==
    IF QLeq(speed, cut_in_speed) \/ QLeq(cut_out_speed, speed)
    THEN QZero
    ELSE py_min(calculate_power_output(speed, air_density, blade_radius,
                                       power_coefficient),
                rated_power_watts)

\* gating and clamping conflated: power above rated is treated as a shut-down
loop_body_conflated(speed, cut_in_speed, cut_out_speed, air_density, blade_radius, power_coefficient, rated_power_watts) ==
    LET power == calculate_power_output(speed, air_density, blade_radius,
                                        power_coefficient)
    IN  IF QLess(speed, cut_in_speed) \/ QLess(cut_out_speed, speed)
           \/ QLess(rated_power_watts, power)
        THEN QZero
        ELSE power

\* the clamp to rated power left out
loop_body_unclamped(speed, cut_in_speed, cut_out_speed, air_density, blade_radius, power_coefficient, rated_power_watts) ==
    IF QLess(speed, cut_in_speed) \/ QLess(cut_out_speed, speed)
    THEN QZero
    ELSE calculate_power_output(speed, air_density, blade_radius,
                                power_coefficient)

loop_body(speed, cut_in_speed, cut_out_speed, air_density, blade_radius, power_coefficient, rated_power_watts) ==
    IF QLess(speed, cut_in_speed) \/ QLess(cut_out_speed, speed)
    THEN QZero
    ELSE LET power == calculate_power_output(speed, air_density, blade_radius,
                                             power_coefficient)
         IN  py_min(power, rated_power_watts)

\* the outputs collected in reverse order
RECURSIVE power_loop_reversed(_, _, _, _, _, _, _)
power_loop_reversed(speeds, cut_in_speed, cut_out_speed, air_density, blade_radius, power_coefficient, rated_power_watts) ==
    IF speeds = << >> THEN << >>
    ELSE power_loop_reversed(Tail(speeds), cut_in_speed, cut_out_speed,
                             air_density, blade_radius, power_coefficient,
                             rated_power_watts)
         \o <<loop_body(Head(speeds), cut_in_speed, cut_out_speed, air_density,
                        blade_radius, power_coefficient, rated_power_watts)>>

RECURSIVE power_loop(_, _, _, _, _, _, _)
power_loop(speeds, cut_in_speed, cut_out_speed, air_density, blade_radius, power_coefficient, rated_power_watts) ==
    IF speeds = << >> THEN << >>
    ELSE <<loop_body(Head(speeds), cut_in_speed, cut_out_speed, air_density,
                     blade_radius, power_coefficient, rated_power_watts)>>
         \o power_loop(Tail(speeds), cut_in_speed, cut_out_speed, air_density,
                       blade_radius, power_coefficient, rated_power_watts)

\* np.where((wind_speeds >= cut_in_speed) & (wind_speeds <= cut_out_speed), ..)
\* the label with both boundary speeds excluded: not what the code computes
operating_status_strict(speed, cut_in_speed, cut_out_speed) ==
    IF QLess(cut_in_speed, speed) /\ QLess(speed, cut_out_speed)
    THEN "Operating" ELSE "Idle"

operating_status(speed, cut_in_speed, cut_out_speed) ==
    IF QLeq(cut_in_speed, speed) /\ QLeq(speed, cut_out_speed)
    THEN "Operating" ELSE "Idle"

\* the DataFrame of the CSV export, src/app.py:483-488, as a list of rows
full_data_frame(speeds, outputs, cut_in_speed, cut_out_speed) ==
    [i \in 1 .. Len(speeds) |->
        [Wind_Speed_m_s |-> speeds[i],
         Power_Output_W |-> outputs[i],
         Power_Output_kW |-> FloatScale(outputs[i], 1, 1000),
         Operating_Status |->
            operating_status(Tenths(speeds[i]), cut_in_speed, cut_out_speed)]]

\* the slice [:100] of an array, src/app.py:471-473
first_100(array) ==
    SubSeq(array, 1, IF Len(array) < 100 THEN Len(array) ELSE 100)

\* the DataFrame of the sample table, src/app.py:470-474, as a list of rows
sample_data_frame(speeds, outputs, cut_in_speed, cut_out_speed) ==
    [i \in 1 .. Len(first_100(speeds)) |->
        [Wind_Speed_m_s |-> first_100(speeds)[i],
         Power_Output_kW |-> FloatScale(first_100(outputs)[i], 1, 1000),
         Operating_Status |->
            operating_status(Tenths(first_100(speeds)[i]),
                             cut_in_speed, cut_out_speed)]]

(***************************************************************************)
(* State.  The widget values live in the browser between reruns; the       *)
(* session_* variables are st.session_state; the rest are the locals of    *)
(* main(), fresh in every rerun.  pc is the position of the script.        *)
(***************************************************************************)
VARIABLES
    session_run_simulation, session_auto_run,
    preset, blade_radius, power_coefficient, rated_power, air_density,
    shape_factor, scale_factor, cut_in_speed, cut_out_speed, auto_run,
    num_samples,
    pc, screen, moves,
    wind_speeds, power_outputs,
    capacity_factor, average_power, average_wind_speed, daily_energy,
    yearly_energy, sample_data, full_data,
    call

session == <<session_run_simulation, session_auto_run>>
turbine == <<blade_radius, power_coefficient, rated_power>>
widgets == <<preset, turbine, air_density, shape_factor, scale_factor,
             cut_in_speed, cut_out_speed, auto_run, num_samples>>
metrics == <<capacity_factor, average_power, average_wind_speed, daily_energy,
             yearly_energy>>
locals == <<wind_speeds, power_outputs, metrics, sample_data, full_data>>
ui == <<session, widgets, pc, screen, moves, locals>>
vars == <<ui, call>>

\* no direct call of a module-level function has been made
NoCall == [fn |-> "none"]

Unset == [kind |-> "unset"]

\* rated_power_watts = rated_power * 1000, src/app.py:195
rated_power_watts == rated_power * 1000

\* the first execution of the script: no interaction yet, every widget at its
\* default, run_simulation False, the welcome screen shown
Init ==
    /\ session_run_simulation = FALSE
    /\ session_auto_run = FALSE
    /\ preset = "Custom"
    /\ blade_radius = blade_radius_widget("Custom").value
    /\ power_coefficient = power_coefficient_widget("Custom").value
    /\ rated_power = rated_power_widget("Custom").value
    /\ air_density = air_density_widget.value
    /\ shape_factor = shape_factor_widget.value
    /\ scale_factor = scale_factor_widget.value
    /\ cut_in_speed = cut_in_speed_widget.value
    /\ cut_out_speed = cut_out_speed_widget.value
    /\ auto_run = FALSE
    /\ num_samples = num_samples_options[num_samples_index + 1]
    /\ pc = "done"
    /\ screen = "welcome"
    /\ moves = 0
    /\ wind_speeds = << >>
    /\ power_outputs = << >>
    /\ capacity_factor = Unset
    /\ average_power = Unset
    /\ average_wind_speed = Unset
    /\ daily_energy = Unset
    /\ yearly_energy = Unset
    /\ sample_data = << >>
    /\ full_data = << >>
    /\ call = NoCall

\* a rerun that stores this rerun's trigger in the session flag instead of
\* latching it: not what the code computes
RunScript_flag_not_latched(button, auto) ==
    /\ session_run_simulation' = (button \/ auto)
    /\ session_auto_run' = IF button \/ auto THEN auto ELSE session_auto_run
    /\ wind_speeds' = << >>
    /\ power_outputs' = << >>
    /\ capacity_factor' = Unset
    /\ average_power' = Unset
    /\ average_wind_speed' = Unset
    /\ daily_energy' = Unset
    /\ yearly_energy' = Unset
    /\ sample_data' = << >>
    /\ full_data' = << >>
    /\ IF button \/ auto
       THEN pc' = "simulation" /\ screen' = "running"
       ELSE pc' = "done" /\ screen' = "welcome"
    /\ UNCHANGED call

(***************************************************************************)
(* A rerun of the script up to the branch of line 256: session state       *)
(* (134-138, 251-253), then either the simulation starts or the welcome    *)
(* screen (524-556) is drawn.  button is the value of st.button in this    *)
(* rerun, auto the value of the Auto-run checkbox.                         *)
(***************************************************************************)
RunScript(button, auto) ==
    /\ session_run_simulation' = (session_run_simulation \/ button \/ auto)
    /\ session_auto_run' = IF button \/ auto THEN auto ELSE session_auto_run
    /\ wind_speeds' = << >>
    /\ power_outputs' = << >>
    /\ capacity_factor' = Unset
    /\ average_power' = Unset
    /\ average_wind_speed' = Unset
    /\ daily_energy' = Unset
    /\ yearly_energy' = Unset
    /\ sample_data' = << >>
    /\ full_data' = << >>
    /\ IF session_run_simulation \/ button \/ auto
       THEN pc' = "simulation" /\ screen' = "running"
       ELSE pc' = "done" /\ screen' = "welcome"
    /\ UNCHANGED call

\* a widget whose arguments are unchanged keeps its value over a rerun; one
\* whose arguments changed is a new widget and returns its value argument
Carry(old_widget, new_widget, current) ==
    IF old_widget = new_widget THEN current ELSE new_widget.value

SelectPreset(p) ==
    /\ pc = "done" /\ moves < MaxMoves
    /\ p # preset
    /\ preset' = p
    /\ blade_radius' =
         Carry(blade_radius_widget(preset), blade_radius_widget(p), blade_radius)
    /\ power_coefficient' =
         Carry(power_coefficient_widget(preset), power_coefficient_widget(p),
               power_coefficient)
    /\ rated_power' =
         Carry(rated_power_widget(preset), rated_power_widget(p), rated_power)
    /\ moves' = moves + 1
    /\ UNCHANGED <<air_density, shape_factor, scale_factor, cut_in_speed,
                   cut_out_speed, auto_run, num_samples>>
    /\ RunScript(FALSE, auto_run)

MoveBladeRadius(v) ==
    /\ pc = "done" /\ moves < MaxMoves
    /\ v # blade_radius
    /\ blade_radius' = v
    /\ moves' = moves + 1
    /\ UNCHANGED <<preset, power_coefficient, rated_power, air_density,
                   shape_factor, scale_factor, cut_in_speed, cut_out_speed,
                   auto_run, num_samples>>
    /\ RunScript(FALSE, auto_run)

MovePowerCoefficient(v) ==
    /\ pc = "done" /\ moves < MaxMoves
    /\ v # power_coefficient
    /\ power_coefficient' = v
    /\ moves' = moves + 1
    /\ UNCHANGED <<preset, blade_radius, rated_power, air_density,
                   shape_factor, scale_factor, cut_in_speed, cut_out_speed,
                   auto_run, num_samples>>
    /\ RunScript(FALSE, auto_run)

EnterRatedPower(v) ==
    /\ pc = "done" /\ moves < MaxMoves
    /\ v # rated_power
    /\ rated_power' = v
    /\ moves' = moves + 1
    /\ UNCHANGED <<preset, blade_radius, power_coefficient, air_density,
                   shape_factor, scale_factor, cut_in_speed, cut_out_speed,
                   auto_run, num_samples>>
    /\ RunScript(FALSE, auto_run)

MoveAirDensity(v) ==
    /\ pc = "done" /\ moves < MaxMoves
    /\ v # air_density
    /\ air_density' = v
    /\ moves' = moves + 1
    /\ UNCHANGED <<preset, turbine, shape_factor, scale_factor, cut_in_speed,
                   cut_out_speed, auto_run, num_samples>>
    /\ RunScript(FALSE, auto_run)

MoveShapeFactor(v) ==
    /\ pc = "done" /\ moves < MaxMoves
    /\ v # shape_factor
    /\ shape_factor' = v
    /\ moves' = moves + 1
    /\ UNCHANGED <<preset, turbine, air_density, scale_factor, cut_in_speed,
                   cut_out_speed, auto_run, num_samples>>
    /\ RunScript(FALSE, auto_run)

MoveScaleFactor(v) ==
    /\ pc = "done" /\ moves < MaxMoves
    /\ v # scale_factor
    /\ scale_factor' = v
    /\ moves' = moves + 1
    /\ UNCHANGED <<preset, turbine, air_density, shape_factor, cut_in_speed,
                   cut_out_speed, auto_run, num_samples>>
    /\ RunScript(FALSE, auto_run)

MoveCutInSpeed(v) ==
    /\ pc = "done" /\ moves < MaxMoves
    /\ v # cut_in_speed
    /\ cut_in_speed' = v
    /\ moves' = moves + 1
    /\ UNCHANGED <<preset, turbine, air_density, shape_factor, scale_factor,
                   cut_out_speed, auto_run, num_samples>>
    /\ RunScript(FALSE, auto_run)

MoveCutOutSpeed(v) ==
    /\ pc = "done" /\ moves < MaxMoves
    /\ v # cut_out_speed
    /\ cut_out_speed' = v
    /\ moves' = moves + 1
    /\ UNCHANGED <<preset, turbine, air_density, shape_factor, scale_factor,
                   cut_in_speed, auto_run, num_samples>>
    /\ RunScript(FALSE, auto_run)

SelectSamples(i) ==
    /\ pc = "done" /\ moves < MaxMoves
    /\ num_samples_options[i] # num_samples
    /\ num_samples' = num_samples_options[i]
    /\ moves' = moves + 1
    /\ UNCHANGED <<preset, turbine, air_density, shape_factor, scale_factor,
                   cut_in_speed, cut_out_speed, auto_run>>
    /\ RunScript(FALSE, auto_run)

ToggleAutoRun ==
    /\ pc = "done"
    /\ auto_run' = ~auto_run
    /\ UNCHANGED <<preset, turbine, air_density, shape_factor, scale_factor,
                   cut_in_speed, cut_out_speed, num_samples, moves>>
    /\ RunScript(FALSE, ~auto_run)

PressRunSimulation ==
    /\ pc = "done"
    /\ UNCHANGED <<widgets, moves>>
    /\ RunScript(TRUE, auto_run)

\* the button of the export tab, src/app.py:493: it exists once results are shown
PressGenerateReport ==
    /\ pc = "done" /\ screen = "results"
    /\ UNCHANGED <<widgets, moves>>
    /\ RunScript(FALSE, auto_run)

(***************************************************************************)
(* The simulation branch, src/app.py:256-282, 470-474 and 483-488.          *)
(* The sampler returns num_samples independent draws: DrawSample is one of *)
(* them; Simulate is the rest of the branch, once the array is complete.   *)
(***************************************************************************)
DrawSample(v) ==
    /\ pc = "simulation"
    /\ Len(wind_speeds) < PopulationSize(num_samples)
    /\ wind_speeds' = Append(wind_speeds, v)
    /\ UNCHANGED <<session, widgets, pc, screen, moves, power_outputs, metrics,
                   sample_data, full_data, call>>

Simulate ==
    /\ pc = "simulation"
    /\ wind_speeds \in
         generate_weibull_wind_speeds(shape_factor, scale_factor, num_samples)
    /\ power_outputs' =
         power_loop([i \in 1 .. Len(wind_speeds) |-> Tenths(wind_speeds[i])],
                    Tenths(cut_in_speed), Tenths(cut_out_speed),
                    Thousandths(air_density), Metres(blade_radius),
                    Hundredths(power_coefficient), QOf(rated_power_watts))
    /\ capacity_factor' =
         calculate_capacity_factor(power_outputs', QOf(rated_power_watts))
    /\ average_power' = np_mean(power_outputs')
    /\ average_wind_speed' =
         np_mean([i \in 1 .. Len(wind_speeds) |-> Tenths(wind_speeds[i])])
    /\ LET hours_per_year == 8760
       IN  /\ daily_energy' = FloatScale(average_power', 24, 1000)
           /\ yearly_energy' =
                FloatScale(average_power', hours_per_year, 1000000)
    /\ sample_data' =
         sample_data_frame(wind_speeds, power_outputs',
                           Tenths(cut_in_speed), Tenths(cut_out_speed))
    /\ full_data' = full_data_frame(wind_speeds, power_outputs',
                                    Tenths(cut_in_speed), Tenths(cut_out_speed))
    /\ pc' = "done"
    /\ screen' = "results"
    /\ UNCHANGED <<session, widgets, moves, wind_speeds, call>>

Next ==
    \/ \E p \in PresetOptions : SelectPreset(p)
    \/ \E v \in UserPicks(blade_radius_widget(preset)) : MoveBladeRadius(v)
    \/ \E v \in UserPicks(power_coefficient_widget(preset)) : MovePowerCoefficient(v)
    \/ \E v \in UserPicks(rated_power_widget(preset)) : EnterRatedPower(v)
    \/ \E v \in UserPicks(air_density_widget) : MoveAirDensity(v)
    \/ \E v \in UserPicks(shape_factor_widget) : MoveShapeFactor(v)
    \/ \E v \in UserPicks(scale_factor_widget) : MoveScaleFactor(v)
    \/ \E v \in UserPicks(cut_in_speed_widget) : MoveCutInSpeed(v)
    \/ \E v \in UserPicks(cut_out_speed_widget) : MoveCutOutSpeed(v)
    \/ \E i \in DOMAIN num_samples_options : SelectSamples(i)
    \/ ToggleAutoRun
    \/ PressRunSimulation
    \/ PressGenerateReport
    \/ \E v \in WindSpeedSupport : DrawSample(v)
    \/ Simulate

Spec == Init /\ [][Next]_vars
(***************************************************************************)
(* The module-level functions called directly, outside main(): the         *)
(* arguments are drawn from bounded sets that reach past the domains the   *)
(* widgets deliver (negative and zero values, an empty population), and    *)
(* call records the arguments and what the function returned.              *)
(***************************************************************************)
\* tenths of m/s
CallWindSpeeds == {-70, 0, 5, 35, 70, 125, 250, 305}
\* thousandths of kg/m3
CallAirDensities == {1000, 1225, 1300}
\* metres
CallBladeRadii == {10, 45, 100}
\* hundredths
CallPowerCoefficients == {10, 45, 59}
\* watts
CallPowerValues == {0, 601480, 2000000}
CallRatedPowers == {-2000000, 0, 1000000, 2000000}
\* the longest power_outputs argument of a direct call
MaxCallLen == 2

CallPowerSeqs ==
    UNION {[1 .. n -> CallPowerValues] : n \in 0 .. MaxCallLen}

CallPowerOutput(v, rho, r, cp) ==
    /\ call = NoCall
    /\ call' = [fn |-> "calculate_power_output",
                wind_speed |-> v, air_density |-> rho, blade_radius |-> r,
                power_coefficient |-> cp,
                result |-> calculate_power_output(Tenths(v), Thousandths(rho),
                                                  Metres(r), Hundredths(cp))]
    /\ UNCHANGED ui

CallCapacityFactor(outputs, rated) ==
    /\ call = NoCall
    /\ call' = [fn |-> "calculate_capacity_factor",
                power_outputs |-> outputs, rated_power |-> rated,
                result |-> calculate_capacity_factor(
                               [i \in 1 .. Len(outputs) |-> QOf(outputs[i])],
                               QOf(rated))]
    /\ UNCHANGED ui

NextFn ==
    \/ \E v \in CallWindSpeeds, rho \in CallAirDensities, r \in CallBladeRadii,
          cp \in CallPowerCoefficients : CallPowerOutput(v, rho, r, cp)
    \/ \E outputs \in CallPowerSeqs, rated \in CallRatedPowers :
          CallCapacityFactor(outputs, rated)

SpecFn == Init /\ [][NextFn]_vars

(***************************************************************************)
(* Properties.  They read the state of a completed run: the results screen *)
(* is shown and the locals of main() hold the run's arrays and metrics.    *)
(* Speeds and limits are compared on their common grid (tenths of m/s).    *)
(***************************************************************************)
RunComplete == pc = "done" /\ screen = "results"
Samples == 1 .. Len(wind_speeds)
BelowCutIn(i) == wind_speeds[i] < cut_in_speed
AboveCutOut(i) == wind_speeds[i] > cut_out_speed
InRange(i) == cut_in_speed <= wind_speeds[i] /\ wind_speeds[i] <= cut_out_speed
\* the theoretical power of sample i under the run's parameters
Theoretical(i) ==
    calculate_power_output(Tenths(wind_speeds[i]), Thousandths(air_density),
                           Metres(blade_radius), Hundredths(power_coefficient))
RatedWatts == QOf(rated_power * 1000)

\* C1: a sample whose speed is below cut-in or above cut-out has power 0,
\* whatever its theoretical power; the comparison is strict, so a sample
\* exactly at cut-in or at cut-out is not zeroed
C1_OutOfRangeZeroStrict ==
    RunComplete =>
        \A i \in Samples :
            /\ (BelowCutIn(i) \/ AboveCutOut(i)) => QSgn(power_outputs[i]) = 0
            /\ (wind_speeds[i] = cut_in_speed \/ wind_speeds[i] = cut_out_speed)
                  => QSgn(power_outputs[i]) > 0

\* a run with a sample below cut-in of positive theoretical power, or above
\* cut-out, next to a sample exactly on a limit
C1_Witness ==
    /\ RunComplete
    /\ \E i, j \in Samples :
          /\ BelowCutIn(i) \/ AboveCutOut(i)
          /\ QSgn(Theoretical(i)) > 0
          /\ wind_speeds[j] = cut_in_speed \/ wind_speeds[j] = cut_out_speed

\* C2: an in-range sample has power min(theoretical, rated): the theoretical
\* power unchanged when it is at most rated, exactly rated (never 0) when above
C2_InRangeIsMinOfTheoreticalAndRated ==
    RunComplete =>
        \A i \in Samples :
            InRange(i) =>
                LET theoretical == Theoretical(i)
                IN  IF QLeq(theoretical, RatedWatts)
                    THEN QEq(power_outputs[i], theoretical)
                    ELSE QEq(power_outputs[i], RatedWatts)

\* a run with an in-range sample clamped to rated and one left unclamped
C2_Witness ==
    /\ RunComplete
    /\ \E i, j \in Samples :
          /\ InRange(i) /\ QLess(RatedWatts, Theoretical(i))
          /\ InRange(j) /\ QLess(Theoretical(j), RatedWatts)

\* C3: every power value of a run lies in [0, rated_power] (watts)
C3_OutputsWithinZeroAndRated ==
    RunComplete =>
        \A i \in Samples :
            /\ QSgn(power_outputs[i]) >= 0
            /\ QLeq(power_outputs[i], RatedWatts)

\* a run holding the rated value and a value strictly between 0 and rated
C3_Witness ==
    /\ RunComplete
    /\ Len(power_outputs) >= 2
    /\ \E i, j \in Samples :
          /\ QEq(power_outputs[i], RatedWatts)
          /\ QSgn(power_outputs[j]) > 0 /\ QLess(power_outputs[j], RatedWatts)

\* C4: the capacity factor of a run lies in [0, 1]
C4_CapacityFactorInUnitInterval ==
    RunComplete =>
        /\ IsFinite(capacity_factor)
        /\ QSgn(capacity_factor) >= 0
        /\ QLeq(capacity_factor, QOf(1))

\* a run with a sample clamped to rated power whose capacity factor lies
\* strictly between 0 and 1
C4_Witness ==
    /\ RunComplete
    /\ Len(power_outputs) >= 1
    /\ QSgn(capacity_factor) > 0
    /\ QLess(capacity_factor, QOf(1))
    /\ \E i \in Samples : QEq(power_outputs[i], RatedWatts)

\* C5: an empty sample population passed to the metrics aggregation fails
\* with InvalidArgument instead of returning a value
C5_EmptyPopulationRejected ==
    (call.fn = "calculate_capacity_factor" /\ Len(call.power_outputs) = 0)
        => call.result.kind = "InvalidArgument"

\* C6: parameters outside their domain (here a non-positive rated_power
\* with a non-empty population) are rejected with InvalidArgument and give
\* no result
C6_InvalidParametersRejected ==
    (/\ call.fn = "calculate_capacity_factor"
     /\ Len(call.power_outputs) > 0
     /\ call.rated_power <= 0)
        => call.result.kind = "InvalidArgument"

\* the power the gating and clamping rules give sample i, from its own speed
ExpectedPower(i) ==
    IF BelowCutIn(i) \/ AboveCutOut(i) THEN QZero
    ELSE LET theoretical == Theoretical(i)
         IN  IF QLeq(theoretical, RatedWatts) THEN theoretical ELSE RatedWatts

\* C7: power_outputs is as long as wind_speeds, power_outputs[i] comes from
\* wind_speeds[i] alone, and row i of the export pairs wind_speeds[i] with
\* power_outputs[i] and power_outputs[i] / 1000
C7_IndexAligned ==
    RunComplete =>
        /\ Len(wind_speeds) = PopulationSize(num_samples)
        /\ Len(power_outputs) = Len(wind_speeds)
        /\ Len(full_data) = Len(wind_speeds)
        /\ \A i \in Samples :
              /\ QEq(power_outputs[i], ExpectedPower(i))
              /\ full_data[i].Wind_Speed_m_s = wind_speeds[i]
              /\ full_data[i].Power_Output_W = power_outputs[i]
              /\ QEq(QMul(full_data[i].Power_Output_kW, QOf(1000)),
                     power_outputs[i])

\* a run of two samples of different speed and different power
C7_Witness ==
    /\ RunComplete
    /\ Len(wind_speeds) = 2
    /\ wind_speeds[1] # wind_speeds[2]
    /\ ~QEq(power_outputs[1], power_outputs[2])
    /\ Len(full_data) = 2

\* C8: calculate_power_output(v, rho, r, cp) is 0.5 * rho * (pi * r^2) * cp * v^3
\* with no clipping; it is >= 0 for v >= 0 and positive rho, r, cp; and
\* doubling v multiplies it by 8
C8_CubicLawUnclipped ==
    call.fn = "calculate_power_output" =>
        LET v == ZOf(call.wind_speed)
            reference ==
                Q(ZMul(ZMul(ZMul(np_pi.num, ZOf(call.air_density)),
                            ZMul(ZOf(call.blade_radius * call.blade_radius),
                                 ZOf(call.power_coefficient))),
                       ZMul(v, ZMul(v, v))),
                  ZMul(ZMul(np_pi.den, ZOf(2 * 1000 * 100)), ZOf(1000)))
            doubled ==
                calculate_power_output(Tenths(2 * call.wind_speed),
                                       Thousandths(call.air_density),
                                       Metres(call.blade_radius),
                                       Hundredths(call.power_coefficient))
        IN  /\ QEq(call.result, reference)
            /\ (/\ call.wind_speed >= 0 /\ call.air_density > 0
                /\ call.blade_radius > 0 /\ call.power_coefficient > 0)
                  => QSgn(call.result) >= 0
            /\ QEq(doubled, QMul(QOf(8), call.result))

\* a call at 30.5 m/s, above every cut-out speed, whose result is above
\* every rated power the UI accepts (10 MW)
C8_Witness ==
    /\ call.fn = "calculate_power_output"
    /\ call.wind_speed = 305
    /\ QLess(QOf(10000000), call.result)

\* the total of s[1..n], summed from the front
RECURSIVE RefTotal(_, _)
RefTotal(s, n) == IF n = 0 THEN QZero ELSE QAdd(RefTotal(s, n - 1), s[n])

RECURSIVE RefSpeedTotal(_)
RefSpeedTotal(n) == IF n = 0 THEN 0 ELSE RefSpeedTotal(n - 1) + wind_speeds[n]

\* C9: average_power is the mean of power_outputs, capacity_factor is
\* average_power / rated watts, daily_energy is average_power * 24 / 1000,
\* yearly_energy is average_power * 8760 / 1000000, and average_wind_speed is
\* the mean of all sampled speeds, out-of-range ones included
C9_MetricsMatchReference ==
    RunComplete =>
        LET n == Len(wind_speeds)
        IN  /\ n > 0
            /\ QEq(QMul(average_power, QOf(n)), RefTotal(power_outputs, n))
            /\ QEq(QMul(capacity_factor, RatedWatts), average_power)
            /\ QEq(QMul(daily_energy, QOf(1000)), QMul(average_power, QOf(24)))
            /\ QEq(QMul(yearly_energy, QOf(1000000)),
                   QMul(average_power, QOf(8760)))
            /\ QEq(QMul(average_wind_speed, QOf(10 * n)),
                   QOf(RefSpeedTotal(n)))

\* a run of two samples, one out of range and one producing power
C9_Witness ==
    /\ RunComplete
    /\ Len(wind_speeds) = 2
    /\ \E i, j \in Samples :
          /\ BelowCutIn(i) \/ AboveCutOut(i)
          /\ InRange(j) /\ QSgn(power_outputs[j]) > 0
    /\ QSgn(average_power) > 0

\* the parameters the script holds lie in the stated domains
\* (power_coefficient is in hundredths: cp <= 0.593 iff 10 * cp <= 593)
DeliveredInDomain ==
    /\ blade_radius > 0
    /\ power_coefficient > 0 /\ 10 * power_coefficient <= 593
    /\ rated_power > 0 /\ rated_power * 1000 > 0
    /\ air_density > 0
    /\ shape_factor > 0
    /\ scale_factor > 0
    /\ cut_in_speed < cut_out_speed
    /\ num_samples >= 1

\* the same for every value of every widget, whatever the preset
EveryWidgetValueInDomain ==
    /\ \A p \in PresetOptions :
          /\ \A v \in WidgetValues(blade_radius_widget(p)) : v > 0
          /\ \A v \in WidgetValues(power_coefficient_widget(p)) :
                v > 0 /\ 10 * v <= 593
          /\ \A v \in WidgetValues(rated_power_widget(p)) : v > 0
    /\ \A v \in WidgetValues(air_density_widget) : v > 0
    /\ \A v \in WidgetValues(shape_factor_widget) : v > 0
    /\ \A v \in WidgetValues(scale_factor_widget) : v > 0
    /\ \A lo \in WidgetValues(cut_in_speed_widget) :
          \A hi \in WidgetValues(cut_out_speed_widget) : lo < hi
    /\ \A i \in DOMAIN num_samples_options : num_samples_options[i] >= 1

\* C10: every parameter combination the widgets deliver lies in the stated
\* domains, for Custom and for each preset.  The second conjunct does not
\* depend on the state and is evaluated on the first screen of a session.
C10_WidgetsDeliverDomainValues ==
    /\ DeliveredInDomain
    /\ (moves = 0 /\ screen = "welcome") => EveryWidgetValueInDomain

\* a completed run whose turbine parameters are those of a preset
C10_Witness ==
    /\ RunComplete
    /\ preset \in PresetNames
    /\ blade_radius = get_preset_parameters(preset).blade_radius
    /\ power_coefficient = get_preset_parameters(preset).power_coefficient
    /\ rated_power = get_preset_parameters(preset).rated_power

(***************************************************************************)
(* C11: once a run has completed, the Operating_Status of every row of the *)
(* sample table (the first 100 samples) and of every row of the CSV export *)
(* (all samples) is "Operating" exactly when the row's wind speed lies in  *)
(* [cut_in_speed, cut_out_speed], both ends included, and "Idle"           *)
(* otherwise; the rows carry the wind speeds of the run, in order.         *)
(***************************************************************************)
C11_StatusLabelInclusive ==
    RunComplete =>
        /\ Len(full_data) = Len(wind_speeds)
        /\ Len(sample_data) =
              (IF Len(wind_speeds) < 100 THEN Len(wind_speeds) ELSE 100)
        /\ \A i \in Samples :
              /\ full_data[i].Wind_Speed_m_s = wind_speeds[i]
              /\ full_data[i].Operating_Status =
                    (IF InRange(i) THEN "Operating" ELSE "Idle")
        /\ \A i \in 1 .. Len(sample_data) :
              /\ sample_data[i].Wind_Speed_m_s = wind_speeds[i]
              /\ sample_data[i].Operating_Status =
                    (IF InRange(i) THEN "Operating" ELSE "Idle")

\* a run with one sample exactly at cut-in and one exactly at cut-out, both
\* labelled "Operating" in the sample table and in the export
C11_Witness ==
    /\ RunComplete
    /\ \E i, j \in Samples :
          /\ wind_speeds[i] = cut_in_speed
          /\ wind_speeds[j] = cut_out_speed
          /\ sample_data[i].Operating_Status = "Operating"
          /\ full_data[i].Operating_Status = "Operating"
          /\ sample_data[j].Operating_Status = "Operating"
          /\ full_data[j].Operating_Status = "Operating"

(***************************************************************************)
(* C12: once a run has completed, a sample is labelled "Idle" exactly when *)
(* the zeroing rule of the power loop applied to it (speed below cut-in or *)
(* above cut-out); every "Idle" sample has power 0 and every "Operating"   *)
(* sample, one exactly at cut-in or at cut-out included, has the ungated,  *)
(* non-zero power min(theoretical, rated).                                 *)
(***************************************************************************)
C12_LabelAgreesWithGating ==
    RunComplete =>
        \A i \in Samples :
            LET status == full_data[i].Operating_Status
                zeroed == BelowCutIn(i) \/ AboveCutOut(i)
            IN  /\ status \in {"Operating", "Idle"}
                /\ (status = "Idle") <=> zeroed
                /\ (status = "Idle") => QSgn(full_data[i].Power_Output_W) = 0
                /\ (status = "Operating") =>
                      /\ QSgn(full_data[i].Power_Output_W) > 0
                      /\ QEq(full_data[i].Power_Output_W,
                             py_min(Theoretical(i), RatedWatts))
                /\ i <= Len(sample_data) =>
                      sample_data[i].Operating_Status = status

\* a run with a sample exactly on a limit, labelled "Operating" with a
\* positive power, next to a zeroed sample labelled "Idle"
C12_Witness ==
    /\ RunComplete
    /\ \E i, j \in Samples :
          /\ wind_speeds[i] = cut_in_speed \/ wind_speeds[i] = cut_out_speed
          /\ full_data[i].Operating_Status = "Operating"
          /\ QSgn(power_outputs[i]) > 0
          /\ BelowCutIn(j) \/ AboveCutOut(j)
          /\ full_data[j].Operating_Status = "Idle"
          /\ QSgn(power_outputs[j]) = 0

(***************************************************************************)
(* C13: st.session_state.run_simulation is False when the session starts;  *)
(* a rerun sets it exactly when the Run button is pressed or Auto-run is   *)
(* checked in that rerun, and no step sets it back to False.  Every rerun  *)
(* made while it is True, one with Auto-run unchecked and no button press  *)
(* included, discards the previous results and starts the simulation, which*)
(* ends with results computed from a complete new sample.  The welcome     *)
(* screen is shown exactly while the flag is still False.                  *)
(***************************************************************************)
C13_RunFlagLatches ==
    /\ session_run_simulation = FALSE
    /\ screen = "welcome"
    /\ [][ /\ session_run_simulation => session_run_simulation'
           /\ (pc = "done" /\ ~session_run_simulation) =>
                 (session_run_simulation' <=>
                    (PressRunSimulation \/ auto_run'))
           /\ (pc = "done" /\ session_run_simulation') =>
                 /\ pc' = "simulation"
                 /\ wind_speeds' = << >>
                 /\ power_outputs' = << >>
                 /\ average_power' = Unset
                 /\ capacity_factor' = Unset
                 /\ sample_data' = << >>
                 /\ full_data' = << >>
           /\ (pc = "simulation" /\ pc' = "done") =>
                 /\ screen' = "results"
                 /\ Len(wind_speeds') = PopulationSize(num_samples)
                 /\ Len(power_outputs') = PopulationSize(num_samples)
           /\ (screen' = "welcome") <=> ~session_run_simulation'
         ]_vars

\* results on screen after a rerun that was no trigger: Auto-run was checked
\* at the last trigger (session_auto_run) and has been unchecked since, and
\* the simulation ran again
C13_Witness ==
    /\ RunComplete
    /\ session_run_simulation
    /\ ~auto_run
    /\ session_auto_run
====
